---------------------------- MODULE Spec2Model ----------------------------
(***************************************************************************)
(* Command Center backend: the notification store (models/database.py),    *)
(* the triage actions of the REST surface (main.py) and the broadcast hub  *)
(* (ws/manager.py), as one state machine.                                  *)
(*                                                                         *)
(* A datetime is a natural number of minutes; a nullable datetime uses     *)
(* NoTime for None.  A nullable string argument uses "" for None (both are *)
(* falsy in the `if status_filter:` test of the code).                     *)
(***************************************************************************)
EXTENDS Integers, Sequences, FiniteSets, TLC

(***************************************************************************)
(* Bounds of the model.                                                    *)
(***************************************************************************)
MaxTime == 2
MaxLimit == 2
MaxId == 3

NoTime == 0 - 1

(***************************************************************************)
(* Enumerations of models/notification.py and the inputs drawn from them.  *)
(***************************************************************************)
Source == {"gmail", "slack"}
SourceIds == {"m1"}
TriageStatus == {"unread", "read", "snoozed", "archived", "actioned"}

\* Notification.triage_status: no adapter sets it, so every incoming
\* notification carries the field's default.
TriageDefault == "unread"

\* Notification.snoozed_until: no adapter sets it either.
SnoozedDefault == NoTime

\* uuid4 values.
Ids == 1..MaxId

\* The mutable content an adapter reports for an item (title, body,
\* timestamp, priority).
Contents ==
    { [title |-> "t1", body |-> "b1", timestamp |-> 1, priority |-> "normal"],
      [title |-> "t2", body |-> "b2", timestamp |-> 2, priority |-> "high"] }

\* The triage actions of NotificationAction.action.
TriageActions == {"archive", "mark_read", "snooze"}

\* payload["snooze_minutes"] values of a snooze action.
SnoozeMinutes == {1}

\* The snooze_minutes a request of each action carries (read by snooze only;
\* DefaultSnoozeMinutes when the payload has none).
DefaultSnoozeMinutes == 30
Payloads(action) ==
    IF action = "snooze" THEN SnoozeMinutes ELSE {DefaultSnoozeMinutes}

\* status_filter arguments of load_notifications ("" is None).
StatusFilters == {"", "unread", "snoozed", "archived"}

\* limit arguments of load_notifications.
Limits == {0, 1, MaxLimit}

\* WebSocket connections of the frontend.
Connections == {"ws1"}

\* The furthest position the vendor's history reaches.
MaxPos == 3

\* How many times listen() raises between two start() calls.
MaxFailures == 2

\* Aggregate fetch: the longest list one fetch_recent returns, and the
\* newest timestamp a fetched notification carries.
MaxFetch == 2
MaxStamp == 1

\* The connections of the hub specification.
HubConnections == {"ws1", "ws2", "ws3"}

\* The events a client's websocket is followed for.
MaxInbox == 2

\* The listener tasks created for one adapter that are followed.
MaxTasks == 3
TaskIds == 1..MaxTasks

VARIABLES
    records,             \* the notifications table: a set of NotificationRecord rows
    now,                 \* datetime.now(UTC)
    active_connections,  \* ws_manager.active_connections
    ret,                 \* what the last call returned / sent
    upserted             \* history: key -> content of the latest save_notification

\* One service adapter (BaseService): its _running flag, its listener task,
\* the start()/stop() call in progress, the last call that completed, whether
\* its vendor session is open, the last connection_status it broadcast, what
\* the listener has done since listen() last raised, and how often it raised.
VARIABLES running, task, call, phase, session, last_status, since_fail,
          failures

adapterVars == <<running, task, call, phase, session, last_status,
                 since_fail, failures>>

\* The incremental sync of one polling adapter: which adapter it is, its sync
\* cursor (_last_history_id, _delta_link, _last_check), the position the
\* vendor is at (for Asana and Plane, the clock), Gmail's _seen_ids, where
\* listen() is, and whether the last cycle ended on a cursor-invalidity error.
VARIABLES kind, cursor, position, seen_ids, sync_pc, after_invalid

syncVars == <<kind, cursor, position, seen_ids, sync_pc, after_invalid>>

\* The ServiceRegistry: the adapters the settings configure, in the order of
\* start_all; registry.services; for each registered adapter whether it is
\* running; the adapters stop_all has called stop() on; and where start_all /
\* stop_all are.
VARIABLES configured, services, svc_running, stop_called, reg_pc

registryVars == <<configured, services, svc_running, stop_called, reg_pc>>

\* A broadcast that is suspended in `await connection.send_text(data)`: the
\* state of its `for connection in self.active_connections` loop.
VARIABLE in_flight

\* An emit_notification call between its two awaits: the notification it was
\* given, once save_notification has returned.
VARIABLE emitting

\* The database sessions and request handlers that are between two of their
\* awaits, and what each client has received over its websocket so far.
VARIABLES sessions, inbox

clientVars == <<sessions, inbox>>

\* One adapter whose start() and stop() calls overlap: every listener task
\* created for it so far, and the one self._task refers to (0 is None).
VARIABLES tasks, task_ref

restartVars == <<tasks, task_ref>>
adapterSide == <<adapterVars, syncVars, registryVars, emitting, clientVars,
                 restartVars>>
serviceVars == <<adapterSide, in_flight>>
storeVars == <<records, now, active_connections, upserted>>
nonAdapterVars == <<storeVars, syncVars, registryVars, in_flight, emitting,
                    clientVars, restartVars>>
nonSyncVars == <<storeVars, adapterVars, registryVars, in_flight, emitting,
                    clientVars, restartVars>>
nonRegistryVars == <<storeVars, adapterVars, syncVars, in_flight, emitting,
                    clientVars, restartVars>>
vars == <<records, now, active_connections, ret, upserted, serviceVars>>

Idle == [op |-> "idle"]

Min(a, b) == IF a <= b THEN a ELSE b

Range(s) == { s[i] : i \in DOMAIN s }

(***************************************************************************)
(* Notification: the object an adapter builds for one observed item.  Its  *)
(* id is a fresh uuid4 at every construction.                              *)
(***************************************************************************)
uuid4 == CHOOSE i \in Ids : \A r \in records : r.id # i

Notification(source, source_id, c) ==
    [ id            |-> uuid4,
      source        |-> source,
      source_id     |-> source_id,
      title         |-> c.title,
      body          |-> c.body,
      timestamp     |-> c.timestamp,
      priority      |-> c.priority,
      triage_status |-> TriageDefault,
      snoozed_until |-> SnoozedDefault ]

(***************************************************************************)
(* save_notification                                                       *)
(***************************************************************************)
\* select(NotificationRecord).where(source == ..., source_id == ...)
SelectBySourceId(notification) ==
    { r \in records : /\ r.source = notification.source
                      /\ r.source_id = notification.source_id }

\* Variants of the update branch with a slip: the body is not refreshed; the
\* incoming triage fields are copied; the incoming id is copied.
UpdateExisting_StaleBody(existing, notification) ==
    [existing EXCEPT !.title = notification.title,
                     !.timestamp = notification.timestamp,
                     !.priority = notification.priority]

UpdateExisting_CopyTriage(existing, notification) ==
    [existing EXCEPT !.title = notification.title,
                     !.body = notification.body,
                     !.timestamp = notification.timestamp,
                     !.priority = notification.priority,
                     !.triage_status = notification.triage_status,
                     !.snoozed_until = notification.snoozed_until]

UpdateExisting_CopyId(existing, notification) ==
    [existing EXCEPT !.id = notification.id,
                     !.title = notification.title,
                     !.body = notification.body,
                     !.timestamp = notification.timestamp,
                     !.priority = notification.priority]

\* The update branch: "Update fields that may have changed".
UpdateExisting(existing, notification) ==
    [existing EXCEPT !.title = notification.title,
                     !.body = notification.body,
                     !.timestamp = notification.timestamp,
                     !.priority = notification.priority]

\* The insert branch: NotificationRecord(...) built from the notification.
\* snoozed_until is not passed, so the column takes its NULL default.
NotificationRecord(notification) ==
    [ id            |-> notification.id,
      source        |-> notification.source,
      source_id     |-> notification.source_id,
      title         |-> notification.title,
      body          |-> notification.body,
      timestamp     |-> notification.timestamp,
      priority      |-> notification.priority,
      triage_status |-> notification.triage_status,
      snoozed_until |-> NoTime ]

Key(r) == <<r.source, r.source_id>>

Content(r) ==
    [title |-> r.title, body |-> r.body,
     timestamp |-> r.timestamp, priority |-> r.priority]

save_notification(notification) ==
    LET found == SelectBySourceId(notification) IN
    /\ IF Cardinality(found) > 1
       THEN \* scalar_one_or_none raises MultipleResultsFound
            /\ records' = records
            /\ ret' = [op |-> "save_notification", raised |-> TRUE,
                       key |-> Key(notification), existing |-> TRUE]
       ELSE IF found # {}
       THEN LET existing == CHOOSE r \in found : TRUE IN
            /\ records' = (records \ {existing})
                             \cup {UpdateExisting(existing, notification)}
            /\ ret' = [op |-> "save_notification", raised |-> FALSE,
                       key |-> Key(notification), existing |-> TRUE]
       ELSE /\ records' = records \cup {NotificationRecord(notification)}
            /\ ret' = [op |-> "save_notification", raised |-> FALSE,
                       key |-> Key(notification), existing |-> FALSE]
    /\ upserted' = [k \in DOMAIN upserted \cup {Key(notification)} |->
                      IF k = Key(notification) THEN Content(notification)
                      ELSE upserted[k]]
    /\ UNCHANGED <<now, active_connections, serviceVars>>

(***************************************************************************)
(* update_triage_status                                                    *)
(***************************************************************************)
\* session.get(NotificationRecord, notification_id): lookup by primary key.
Get(notification_id) == { r \in records : r.id = notification_id }

\* record.triage_status = status; if snoozed_until: record.snoozed_until = ...
SetTriage(record, status, snoozed_until) ==
    [record EXCEPT !.triage_status = status,
                   !.snoozed_until = IF snoozed_until # NoTime
                                     THEN snoozed_until ELSE @]

\* The table after update_triage_status(notification_id, status, snoozed_until).
update_triage_status(notification_id, status, snoozed_until) ==
    IF Get(notification_id) = {}
    THEN records
    ELSE LET record == CHOOSE r \in Get(notification_id) : TRUE IN
         (records \ {record}) \cup {SetTriage(record, status, snoozed_until)}

\* Variant: the lookup's outcome is not reported.
update_triage_status_result_AlwaysTrue(notification_id) == TRUE

\* Its return value: False when the id is unknown.
update_triage_status_result(notification_id) == Get(notification_id) # {}

(***************************************************************************)
(* ws/manager.py: ConnectionManager                                        *)
(***************************************************************************)
WebSocketMessage(event, data) == [event |-> event, data |-> data]

\* send_update: data = {"id": notification_id, **updates}
UpdateMessage(notification_id, updates) ==
    WebSocketMessage("notification_updated",
                     [id |-> notification_id] @@ updates)

\* broadcast(message) when send_text raises on the connections of `dead`:
\* the connections that stay registered.
AfterBroadcast(dead) == active_connections \ dead

\* One record of a broadcast: the message and the connections it reached.
Delivery(message, dead) ==
    [message |-> message, to |-> active_connections \ dead]

\* No broadcast is suspended in a send.
NoBroadcast == [pc |-> "none"]

\* No emit_notification call is between its save and its broadcast.
NoEmit == [pc |-> "none"]

\* The coroutines that may be inside a database session or a request
\* handler at the same time, and one that is not.
Sessions == {1, 2}
NoSession == [pc |-> "none"]

\* What a change of the connection set does to the loop of a suspended
\* broadcast: the set iterator walks the live set, so a removed connection
\* is no longer ahead of it, and an added one lands ahead of it or behind it;
\* `stayed` keeps the connections registered since the loop began.
Interleaved(removed, ahead) ==
    IF in_flight.pc = "none" THEN in_flight
    ELSE [in_flight EXCEPT !.todo = (@ \ removed) \cup ahead,
                           !.stayed = @ \ removed]

connect(websocket) ==
    /\ active_connections' = active_connections \cup {websocket}
    /\ \E ahead \in SUBSET ({websocket} \ active_connections) :
          in_flight' = Interleaved({}, ahead)
    /\ ret' = Idle
    /\ UNCHANGED <<records, now, upserted, adapterSide>>

disconnect(websocket) ==
    /\ active_connections' = active_connections \ {websocket}
    /\ in_flight' = Interleaved({websocket}, {})
    /\ ret' = Idle
    /\ UNCHANGED <<records, now, upserted, adapterSide>>

\* send_connection_status: the connection_status event of one service.
ConnectionStatusMessage(service, connected, account) ==
    WebSocketMessage("connection_status",
                     [service |-> service, connected |-> connected,
                      account |-> account])

\* The orders in which `for connection in self.active_connections` may visit
\* the set.
IterationOrders(conns) ==
    { s \in [1..Cardinality(conns) -> conns] :
        \A i, j \in DOMAIN s : i # j => s[i] # s[j] }

\* Variant of the send loop that lets the first send_text failure escape.
RECURSIVE SendAll_FirstFailureEscapes(_, _)
SendAll_FirstFailureEscapes(order, failing) ==
    IF order = << >>
    THEN [attempted |-> {}, delivered |-> {}, dead |-> {}, raised |-> FALSE]
    ELSE IF Head(order) \in failing
    THEN [attempted |-> {Head(order)}, delivered |-> {},
          dead |-> {}, raised |-> TRUE]
    ELSE LET rest == SendAll_FirstFailureEscapes(Tail(order), failing) IN
         [rest EXCEPT !.attempted = @ \cup {Head(order)},
                      !.delivered = @ \cup {Head(order)}]

\* The send loop of broadcast over the connections in visiting order, when
\* send_text raises on the connections of `failing`: the connections tried,
\* those that got the data, dead_connections, and whether an exception left
\* the loop (the try/except around send_text catches every one).
RECURSIVE SendAll(_, _)
SendAll(order, failing) ==
    IF order = << >>
    THEN [attempted |-> {}, delivered |-> {}, dead |-> {}, raised |-> FALSE]
    ELSE LET rest == SendAll(Tail(order), failing) IN
         IF Head(order) \in failing
         THEN [rest EXCEPT !.attempted = @ \cup {Head(order)},
                           !.dead = @ \cup {Head(order)}]
         ELSE [rest EXCEPT !.attempted = @ \cup {Head(order)},
                           !.delivered = @ \cup {Head(order)}]

\* broadcast(message), run to completion; `failing` are the connections whose
\* send_text raises.  "Clean up dead connections" is reached only when the
\* loop ends without an exception.
broadcast(message, failing) ==
    \E order \in IterationOrders(active_connections) :
      LET out == SendAll(order, failing) IN
      /\ active_connections' = IF out.raised THEN active_connections
                                ELSE AfterBroadcast(out.dead)
      /\ in_flight' = IF out.raised THEN in_flight
                       ELSE Interleaved(out.dead, {})
      /\ ret' = [op |-> "broadcast", message |-> message,
                 failing |-> failing, attempted |-> out.attempted,
                 to |-> out.delivered, raised |-> out.raised]
      /\ UNCHANGED <<records, now, upserted, adapterSide>>

\* The set iterator compares the size of the set with the size it had when
\* the loop began, each time the loop asks for the next connection; a
\* difference raises RuntimeError("Set changed size during iteration"), at
\* the `for` statement and so outside the try/except around send_text.
SizeChanged(used) == Cardinality(active_connections) # used

\* broadcast(message) up to its first suspension: json.dumps, then the loop
\* takes the first connection and awaits its send_text.  With no connection
\* the broadcast completes at once.
broadcast_begin(message) ==
    /\ in_flight.pc = "none"
    /\ IF active_connections = {}
       THEN /\ in_flight' = in_flight
            /\ ret' = [op |-> "broadcast_done", message |-> message,
                       raised |-> FALSE, attempted |-> {}, stayed |-> {},
                       interleaved |-> FALSE]
       ELSE /\ \E c \in active_connections :
                 in_flight' = [pc |-> "send", message |-> message,
                               current |-> c,
                               todo |-> active_connections \ {c},
                               used |-> Cardinality(active_connections),
                               attempted |-> {}, dead |-> {},
                               stayed |-> active_connections,
                               began |-> active_connections]
            /\ ret' = Idle
    /\ UNCHANGED <<records, now, active_connections, upserted, adapterSide>>

\* The suspended send_text returns or raises (`failed`); the loop then asks
\* the iterator for the next connection: RuntimeError when the set changed
\* size meanwhile, the next send when a connection is ahead, and otherwise
\* the end of the loop and `self.active_connections -= dead_connections`.
broadcast_resume(failed) ==
    /\ in_flight.pc = "send"
    /\ LET attempted == in_flight.attempted \cup {in_flight.current}
           dead == IF failed THEN in_flight.dead \cup {in_flight.current}
                   ELSE in_flight.dead
           done(raised) ==
               [op |-> "broadcast_done", message |-> in_flight.message,
                raised |-> raised, attempted |-> attempted,
                stayed |-> in_flight.stayed,
                interleaved |-> active_connections # in_flight.began]
       IN
       IF SizeChanged(in_flight.used)
       THEN /\ in_flight' = NoBroadcast
            /\ ret' = done(TRUE)
            /\ UNCHANGED active_connections
       ELSE IF in_flight.todo = {}
       THEN /\ in_flight' = NoBroadcast
            /\ ret' = done(FALSE)
            /\ active_connections' = AfterBroadcast(dead)
       ELSE /\ \E c \in in_flight.todo :
                 in_flight' = [in_flight EXCEPT !.current = c,
                                                !.todo = @ \ {c},
                                                !.attempted = attempted,
                                                !.dead = dead]
            /\ ret' = Idle
            /\ UNCHANGED active_connections
    /\ UNCHANGED <<records, now, upserted, adapterSide>>

(***************************************************************************)
(* main.py: action_notification, the archive / mark_read / snooze branches *)
(***************************************************************************)
ActionStatus(action) ==
    CASE action = "archive"   -> "archived"
      [] action = "mark_read" -> "read"
      [] action = "snooze"    -> "snoozed"

\* The updates dict passed to ws_manager.send_update.
ActionUpdates(action, minutes) ==
    IF action = "snooze"
    THEN [triage_status |-> "snoozed", snooze_minutes |-> minutes]
    ELSE [triage_status |-> ActionStatus(action)]

\* snoozed_until = datetime.now(UTC) + timedelta(minutes=minutes)
ActionSnoozedUntil(action, minutes) ==
    IF action = "snooze" THEN now + minutes ELSE NoTime

\* The handler's outcome once update_triage_status has returned `updated`.
ActionOutcome(notification_id, action, minutes, updated) ==
    IF ~updated
    THEN \* raise HTTPException(404, ...)
         /\ ret' = [op |-> "action_notification",
                    notification_id |-> notification_id, action |-> action,
                    code |-> 404, status |-> "not found", events |-> << >>]
         /\ UNCHANGED active_connections
    ELSE \E dead \in SUBSET active_connections :
         /\ active_connections' = AfterBroadcast(dead)
         /\ ret' = [op |-> "action_notification",
                    notification_id |-> notification_id, action |-> action,
                    code |-> 200, status |-> ActionStatus(action),
                    events |-> << Delivery(
                        UpdateMessage(notification_id,
                                      ActionUpdates(action, minutes)),
                        dead) >>]

action_notification(notification_id, action, minutes) ==
    /\ records' = update_triage_status(notification_id, ActionStatus(action),
                                       ActionSnoozedUntil(action, minutes))
    /\ ActionOutcome(notification_id, action, minutes,
                     update_triage_status_result(notification_id))
    /\ UNCHANGED <<now, upserted, serviceVars>>

(***************************************************************************)
(* load_notifications                                                      *)
(***************************************************************************)
\* Variant: the default listing does not exclude archived rows.
Where_NoDefaultExclusion(r, status_filter) ==
    status_filter # "" => r.triage_status = status_filter

\* The WHERE clause: the given status, or everything but archived.
Where(r, status_filter) ==
    IF status_filter # ""
    THEN r.triage_status = status_filter
    ELSE r.triage_status # "archived"

\* ORDER BY timestamp DESC: every order of the rows the database may
\* produce (rows of equal timestamp come in either order).
OrderByTimestampDesc(rows) ==
    { s \in [1..Cardinality(rows) -> rows] :
        /\ \A i, j \in DOMAIN s : i # j => s[i] # s[j]
        /\ \A i, j \in DOMAIN s : i < j => s[i].timestamp >= s[j].timestamp }

\* LIMIT limit
Limit(s, limit) == SubSeq(s, 1, Min(limit, Len(s)))

\* Variants of the un-snooze test: strict comparison; status not tested.
Unsnooze_Strict(r, t) ==
    IF r.triage_status = "snoozed" /\ r.snoozed_until # NoTime
                                   /\ r.snoozed_until < t
    THEN [r EXCEPT !.triage_status = "unread", !.snoozed_until = NoTime]
    ELSE r

Unsnooze_AnyStatus(r, t) ==
    IF r.snoozed_until # NoTime /\ r.snoozed_until <= t
    THEN [r EXCEPT !.triage_status = "unread", !.snoozed_until = NoTime]
    ELSE r

\* "Un-snooze expired items": the row as the loop leaves it.
Unsnooze(r, t) ==
    IF r.triage_status = "snoozed" /\ r.snoozed_until # NoTime
                                   /\ r.snoozed_until <= t
    THEN [r EXCEPT !.triage_status = "unread", !.snoozed_until = NoTime]
    ELSE r

load_notifications(limit, status_filter) ==
    \E ordered \in OrderByTimestampDesc(
                      { r \in records : Where(r, status_filter) }) :
      LET selected == Limit(ordered, limit) IN
      /\ records' = (records \ Range(selected))
                       \cup { Unsnooze(r, now) : r \in Range(selected) }
      /\ ret' = [op |-> "load_notifications", limit |-> limit,
                 status_filter |-> status_filter,
                 notifications |->
                     [i \in DOMAIN selected |-> Unsnooze(selected[i], now)]]
      /\ UNCHANGED <<now, active_connections, upserted, serviceVars>>

(***************************************************************************)
(* The state machine                                                       *)
(***************************************************************************)
\* BaseService.__init__, before any start().
NoTask == [pc |-> "none", cancel |-> FALSE]
NoCall == [op |-> "none", pc |-> "none", connected |-> FALSE, spawned |-> 0]

InitAdapter ==
    /\ running = FALSE
    /\ task = NoTask
    /\ call = NoCall
    /\ phase = "new"
    /\ session = FALSE
    /\ last_status = "none"
    /\ since_fail = << >>
    /\ failures = 0

\* None (no cursor), and the empty string Gmail stores when a profile carries
\* no historyId; both are false in `if self._last_history_id:`.
NoCursor == 0 - 1
EmptyCursor == 0 - 2

\* __init__ of a polling adapter, here the Gmail one.
InitSyncOf(k) ==
    /\ kind = k
    /\ cursor = NoCursor
    /\ position = 1
    /\ seen_ids = {}
    /\ sync_pc = "poll"
    /\ after_invalid = FALSE

\* ServiceRegistry.__init__ with the given settings.
InitRegistryOf(config) ==
    /\ configured = config
    /\ services = << >>
    /\ svc_running = << >>
    /\ stop_called = {}
    /\ reg_pc = "created"

InitStore ==
    /\ records = {}
    /\ now = 0
    /\ active_connections = {}
    /\ in_flight = NoBroadcast
    /\ emitting = NoEmit
    /\ sessions = [t \in Sessions |-> NoSession]
    /\ inbox = [c \in HubConnections |-> << >>]
    /\ tasks = [i \in TaskIds |-> NoTask]
    /\ task_ref = 0
    /\ upserted = << >>

Init ==
    /\ InitStore
    /\ ret = Idle
    /\ InitAdapter
    /\ InitSyncOf("gmail")
    /\ InitRegistryOf(<< >>)

\* The clock advances between calls.
Tick ==
    /\ now < MaxTime
    /\ now' = now + 1
    /\ ret' = Idle
    /\ UNCHANGED <<records, active_connections, upserted, serviceVars>>

Next ==
    \/ \E s \in Source, sid \in SourceIds, c \in Contents :
          save_notification(Notification(s, sid, c))
    \/ \E id \in Ids, a \in TriageActions :
          \E m \in Payloads(a) : action_notification(id, a, m)
    \/ \E limit \in Limits, f \in StatusFilters :
          load_notifications(limit, f)
    \/ \E c \in Connections : connect(c)
    \/ \E c \in Connections : disconnect(c)
    \/ Tick

Spec == Init /\ [][Next]_vars

(***************************************************************************)
(* The broadcast hub alone: clients register and unregister, and events    *)
(* are broadcast while some deliveries fail.  Each hub call runs to        *)
(* completion before the next one starts.                                  *)
(***************************************************************************)
HubMessages ==
    { ConnectionStatusMessage(s, b, "acct") : s \in Source, b \in BOOLEAN }
        \cup { UpdateMessage(1, [triage_status |-> "read"]) }

NextHub ==
    \/ \E c \in HubConnections : connect(c)
    \/ \E c \in HubConnections : disconnect(c)
    \/ \E m \in HubMessages, failing \in SUBSET HubConnections :
          broadcast(m, failing)

SpecHub == Init /\ [][NextHub]_vars

(***************************************************************************)
(* services/base.py: BaseService.emit_notification.  The call awaits        *)
(* save_notification and then ws_manager.send_notification; hub calls of    *)
(* other coroutines run between the two.                                    *)
(***************************************************************************)
\* send_notification: the new_notification event of one notification.
NewNotificationMessage(notification) ==
    WebSocketMessage("new_notification", notification)

\* Variant of emit_notification that goes on to send_notification whether or
\* not save_notification raised.
ReachesSend_Always(raised) == TRUE

\* `await save_notification(notification)` is followed by the next statement
\* only when it returns: an exception leaves emit_notification.
ReachesSend(raised) == ~raised

\* emit_notification up to the return of save_notification.  The session
\* raises on a database error (`db_fails`) before anything is committed, and
\* scalar_one_or_none raises on more than one matching row.
emit_save(notification, db_fails) ==
    /\ emitting.pc = "none"
    /\ LET found == SelectBySourceId(notification)
           raised == db_fails \/ Cardinality(found) > 1
       IN
       /\ records' =
             IF raised THEN records
             ELSE IF found # {}
             THEN LET existing == CHOOSE r \in found : TRUE IN
                  (records \ {existing})
                      \cup {UpdateExisting(existing, notification)}
             ELSE records \cup {NotificationRecord(notification)}
       /\ upserted' =
             IF raised THEN upserted
             ELSE [k \in DOMAIN upserted \cup {Key(notification)} |->
                     IF k = Key(notification) THEN Content(notification)
                     ELSE upserted[k]]
       /\ emitting' = IF ReachesSend(raised)
                      THEN [pc |-> "saved", notification |-> notification,
                            raised |-> raised]
                      ELSE NoEmit
       /\ ret' = [op |-> "save_notification", raised |-> raised,
                  key |-> Key(notification), existing |-> found # {}]
    /\ UNCHANGED <<now, active_connections, in_flight, adapterVars,
                   syncVars, registryVars, clientVars,
                   restartVars>>

\* emit_notification from the return of save_notification on:
\* ws_manager.send_notification(notification), a broadcast.
emit_send(failing) ==
    /\ emitting.pc = "saved"
    /\ \E order \in IterationOrders(active_connections) :
         LET out == SendAll(order, failing) IN
         /\ active_connections' = AfterBroadcast(out.dead)
         /\ in_flight' = Interleaved(out.dead, {})
         /\ ret' = [op |-> "new_notification",
                    message |-> NewNotificationMessage(emitting.notification),
                    key |-> Key(emitting.notification),
                    attempted |-> out.attempted, to |-> out.delivered]
    /\ emitting' = NoEmit
    /\ UNCHANGED <<records, now, upserted, adapterVars, syncVars,
                   registryVars, clientVars,
                   restartVars>>

NextEmit ==
    \/ \E s \in Source, sid \in SourceIds, c \in Contents, f \in BOOLEAN :
          emit_save(Notification(s, sid, c), f)
    \/ \E failing \in SUBSET Connections : emit_send(failing)
    \/ \E c \in Connections : connect(c)
    \/ \E c \in Connections : disconnect(c)

SpecEmit == Init /\ [][NextEmit]_vars

\* Listen cycles that observe an item again after clients have triaged it:
\* emit_notification together with the archive and mark_read actions.
NextReplay ==
    \/ NextEmit
    \/ \E id \in Ids, a \in {"archive", "mark_read"} :
          action_notification(id, a, DefaultSnoozeMinutes)

SpecReplay == Init /\ [][NextReplay]_vars

\* The hub when the coroutines of the event loop interleave at the awaits of
\* broadcast: one broadcast advances send by send while connects, disconnects
\* and other broadcasts run between its sends.
NextInterleaved ==
    \/ \E c \in HubConnections : connect(c)
    \/ \E c \in HubConnections : disconnect(c)
    \/ \E failing \in {{}} \cup {{c} : c \in HubConnections} :
          /\ in_flight.pc = "send"
          /\ broadcast(UpdateMessage(1, [triage_status |-> "read"]), failing)
    \/ broadcast_begin(ConnectionStatusMessage("gmail", TRUE, "acct"))
    \/ \E failed \in BOOLEAN : broadcast_resume(failed)

SpecInterleaved == Init /\ [][NextInterleaved]_vars

(***************************************************************************)
(* main.py: ServiceRegistry.fetch_all_recent over three registered         *)
(* services.  A fetch_recent call either raises or returns a list of its   *)
(* service's notifications, in any order.                                  *)
(***************************************************************************)
FetchServices == <<"gmail", "slack", "asana">>

FetchedLists(service) ==
    { [i \in DOMAIN stamps |-> [source |-> service, source_id |-> i,
                                 timestamp |-> stamps[i]]] :
        stamps \in UNION { [1..k -> 0..MaxStamp] : k \in 0..MaxFetch } }

\* What one fetch_recent coroutine ends with.
FetchOutcomes(service) ==
    { [raised |-> TRUE, list |-> << >>] }
        \cup { [raised |-> FALSE, list |-> l] : l \in FetchedLists(service) }

\* Variant of gather without return_exceptions: the first exception leaves it.
GatherResult_ExceptionPropagates(outcomes) ==
    [raised |-> \E i \in DOMAIN outcomes : outcomes[i].raised,
     results |-> outcomes]

\* asyncio.gather(*tasks, return_exceptions=True): one result per task, in
\* task order, an exception being a result like any other.
GatherResult(outcomes) ==
    [raised |-> FALSE, results |-> outcomes]

\* The loop over results: lists are appended in order, exceptions printed.
RECURSIVE ExtendAll(_)
ExtendAll(results) ==
    IF results = << >> THEN << >>
    ELSE (IF Head(results).raised THEN << >> ELSE Head(results).list)
             \o ExtendAll(Tail(results))

\* list.sort(key=timestamp, reverse=True) is stable: an element goes behind
\* every element already placed whose timestamp is not older.
RECURSIVE InsertDesc(_, _)
InsertDesc(x, sorted) ==
    IF sorted = << >> THEN <<x>>
    ELSE IF Head(sorted).timestamp >= x.timestamp
         THEN <<Head(sorted)>> \o InsertDesc(x, Tail(sorted))
         ELSE <<x>> \o sorted

RECURSIVE SortDesc(_, _)
SortDesc(todo, sorted) ==
    IF todo = << >> THEN sorted
    ELSE SortDesc(Tail(todo), InsertDesc(Head(todo), sorted))

\* all_notifications[:limit] for limit >= 0.
Slice(s, limit) == SubSeq(s, 1, Min(limit, Len(s)))

\* fetch_all_recent(limit), from the creation of the fetch_recent coroutines
\* (whose outcomes the pending call holds) to its return.
fetch_all_recent(outcomes, limit) ==
    LET gathered == GatherResult(outcomes) IN
    /\ ret = [op |-> "fetch_recent", limit |-> limit, outcomes |-> outcomes]
    /\ ret' = [op |-> "fetch_all_recent", limit |-> limit,
               outcomes |-> outcomes, raised |-> gathered.raised,
               notifications |->
                   IF gathered.raised THEN << >>
                   ELSE Slice(SortDesc(ExtendAll(gathered.results), << >>),
                              limit)]
    /\ UNCHANGED <<records, now, active_connections, upserted, serviceVars>>

\* A call of fetch_all_recent(limit) whose three fetch_recent coroutines end
\* as the vendors make them end.
InitFetch ==
    /\ InitStore
    /\ InitAdapter
    /\ InitSyncOf("gmail")
    /\ InitRegistryOf(<< >>)
    /\ \E o1 \in FetchOutcomes(FetchServices[1]),
          o2 \in FetchOutcomes(FetchServices[2]),
          o3 \in FetchOutcomes(FetchServices[3]),
          limit \in Limits :
           ret = [op |-> "fetch_recent", limit |-> limit,
                  outcomes |-> <<o1, o2, o3>>]

NextFetch == fetch_all_recent(ret.outcomes, ret.limit)

SpecFetch == InitFetch /\ [][NextFetch]_vars

(***************************************************************************)
(* main.py: the listings given to clients, GET /api/notifications and the   *)
(* initial_load of the /ws endpoint.  Both call fetch_all_recent, whose     *)
(* fetch_recent coroutines convert what the vendors return.                 *)
(***************************************************************************)
ListedServices == <<"gmail", "slack">>

\* What one fetch_recent coroutine ends with: an exception, or the list of
\* the notifications converted from the vendor's items (at most one here).
VendorOutcomes(service) ==
    { [raised |-> TRUE, list |-> << >>], [raised |-> FALSE, list |-> << >>] }
        \cup { [raised |-> FALSE, list |-> <<Notification(service, sid, c)>>] :
                  sid \in SourceIds, c \in Contents }

\* registry.fetch_all_recent(limit) over the outcomes of the coroutines.
FetchAllRecent(outcomes, limit) ==
    Slice(SortDesc(ExtendAll(GatherResult(outcomes).results), << >>), limit)

\* [n for n in notifications if n.triage_status.value == status], applied
\* `if status:` ("" is None).
StatusFiltered(notifications, status) ==
    IF status # ""
    THEN SelectSeq(notifications, LAMBDA n : n.triage_status = status)
    ELSE notifications

get_notifications(limit, status, outcomes) ==
    /\ ret' = [op |-> "get_notifications", limit |-> limit,
               status |-> status,
               notifications |->
                   StatusFiltered(FetchAllRecent(outcomes, limit), status)]
    /\ UNCHANGED <<records, now, active_connections, upserted, serviceVars>>

\* limit=50 of the initial load.
InitialLoadLimit == 50

\* websocket_endpoint up to its receive loop: connect, fetch_all_recent,
\* send_text of the initial_load event to this client; a failing send_text
\* ends in ws_manager.disconnect(websocket).
websocket_endpoint(websocket, outcomes, send_fails) ==
    /\ IF send_fails
       THEN /\ active_connections' = active_connections \ {websocket}
            /\ in_flight' = Interleaved({websocket}, {})
       ELSE /\ active_connections' = active_connections \cup {websocket}
            /\ \E ahead \in SUBSET ({websocket} \ active_connections) :
                  in_flight' = Interleaved({}, ahead)
    /\ ret' = [op |-> "initial_load", to |-> websocket,
               sent |-> ~send_fails,
               notifications |-> FetchAllRecent(outcomes, InitialLoadLimit)]
    /\ UNCHANGED <<records, now, upserted, adapterSide>>

NextListing ==
    \/ \E s \in Source, sid \in SourceIds, c \in Contents :
          save_notification(Notification(s, sid, c))
    \/ \E id \in Ids, a \in {"archive", "mark_read"} :
          action_notification(id, a, DefaultSnoozeMinutes)
    \/ \E limit \in Limits, status \in StatusFilters,
          o1 \in VendorOutcomes(ListedServices[1]),
          o2 \in VendorOutcomes(ListedServices[2]) :
          get_notifications(limit, status, <<o1, o2>>)
    \/ \E c \in Connections, send_fails \in BOOLEAN,
          o1 \in VendorOutcomes(ListedServices[1]),
          o2 \in VendorOutcomes(ListedServices[2]) :
          websocket_endpoint(c, <<o1, o2>>, send_fails)

SpecListing == Init /\ [][NextListing]_vars

(***************************************************************************)
(* models/database.py: save_notification as the two database round trips   *)
(* it awaits, the SELECT and the flush-and-COMMIT, each session on its own  *)
(* connection.  The table has no unique constraint on (source, source_id),  *)
(* and a SELECT takes no lock that outlives it.                             *)
(***************************************************************************)
\* `await session.execute(select ...)` and scalar_one_or_none.
upsert_select(t, source, source_id, c) ==
    /\ sessions[t].pc = "none"
    /\ LET found == { r \in records : Key(r) = <<source, source_id>> } IN
       IF Cardinality(found) > 1
       THEN \* MultipleResultsFound
            /\ ret' = [op |-> "save_notification", raised |-> TRUE,
                       key |-> <<source, source_id>>, existing |-> TRUE]
            /\ UNCHANGED sessions
       ELSE /\ sessions' = [sessions EXCEPT ![t] =
                               [pc |-> "selected", source |-> source,
                                source_id |-> source_id, content |-> c,
                                existing |-> { r.id : r \in found }]]
            /\ UNCHANGED ret
    /\ UNCHANGED <<records, now, active_connections, upserted, in_flight,
                   adapterVars, syncVars, registryVars, emitting, inbox,
                   restartVars>>

\* The update or insert branch and `await session.commit()`: an UPDATE of
\* the row read, by primary key, or an INSERT of a row under the
\* notification's uuid4 (unique, so drawn here against the rows present).
upsert_commit(t) ==
    /\ sessions[t].pc = "selected"
    /\ LET se == sessions[t]
           notification == Notification(se.source, se.source_id, se.content)
       IN
       /\ records' =
             IF se.existing # {}
             THEN { IF r.id \in se.existing
                    THEN UpdateExisting(r, notification) ELSE r :
                    r \in records }
             ELSE records \cup {NotificationRecord(notification)}
       /\ upserted' = [k \in DOMAIN upserted \cup {Key(notification)} |->
                         IF k = Key(notification) THEN Content(notification)
                         ELSE upserted[k]]
       /\ ret' = [op |-> "save_notification", raised |-> FALSE,
                  key |-> Key(notification), existing |-> se.existing # {}]
    /\ sessions' = [sessions EXCEPT ![t] = NoSession]
    /\ UNCHANGED <<now, active_connections, in_flight, adapterVars, syncVars,
                   registryVars, emitting, inbox,
                   restartVars>>

\* Slack events of one workspace handled concurrently.
NextUpserts ==
    \/ \E t \in Sessions, sid \in SourceIds, c \in Contents :
          upsert_select(t, "slack", sid, c)
    \/ \E t \in Sessions : upsert_commit(t)

SpecUpserts == Init /\ [][NextUpserts]_vars

(***************************************************************************)
(* models/database.py: load_notifications as its two round trips, the       *)
(* SELECT and the flush-and-COMMIT of the rows its loop un-snoozed, with    *)
(* triage actions of other requests committing in between.                  *)
(***************************************************************************)
\* The query, `now = datetime.now(UTC)` and the loop, up to the await of
\* session.commit(): the listing is built and the expired snoozed rows are
\* changed in the session only.
list_read(t, limit, status_filter) ==
    /\ sessions[t].pc = "none"
    /\ \E ordered \in OrderByTimestampDesc(
                        { r \in records : Where(r, status_filter) }) :
         LET selected == Limit(ordered, limit) IN
         sessions' = [sessions EXCEPT ![t] =
             [pc |-> "listed", limit |-> limit,
              status_filter |-> status_filter,
              notifications |->
                  [i \in DOMAIN selected |-> Unsnooze(selected[i], now)],
              dirty |-> { r.id : r \in { x \in Range(selected) :
                                            Unsnooze(x, now) # x } }]]
    /\ UNCHANGED <<records, now, active_connections, ret, upserted, in_flight,
                   adapterVars, syncVars, registryVars, emitting, inbox,
                   restartVars>>

\* `await session.commit()`: the flush writes the changed attributes of each
\* changed row, by primary key (UPDATE ... SET triage_status = 'unread',
\* snoozed_until = NULL WHERE id = ?).
list_commit(t) ==
    /\ sessions[t].pc = "listed"
    /\ records' = { IF r.id \in sessions[t].dirty
                    THEN [r EXCEPT !.triage_status = "unread",
                                   !.snoozed_until = NoTime]
                    ELSE r : r \in records }
    /\ ret' = [op |-> "load_notifications", limit |-> sessions[t].limit,
               status_filter |-> sessions[t].status_filter,
               notifications |-> sessions[t].notifications]
    /\ sessions' = [sessions EXCEPT ![t] = NoSession]
    /\ UNCHANGED <<now, active_connections, upserted, in_flight, adapterVars,
                   syncVars, registryVars, emitting, inbox,
                   restartVars>>

NextLazyUnsnooze ==
    \/ \E sid \in SourceIds, c \in Contents :
          save_notification(Notification("gmail", sid, c))
    \/ \E id \in Ids, a \in TriageActions :
          \E m \in Payloads(a) : action_notification(id, a, m)
    \/ \E f \in {"", "snoozed"} : list_read(1, MaxLimit, f)
    \/ list_commit(1)
    \/ Tick

SpecLazyUnsnooze == Init /\ [][NextLazyUnsnooze]_vars

(***************************************************************************)
(* main.py: the archive and mark_read branches of action_notification as    *)
(* the two calls they await, update_triage_status and                       *)
(* ws_manager.send_update, with other requests running between the two.     *)
(***************************************************************************)
\* What the clients have been sent so far, and the room left to follow more.
Received == { Len(inbox[c]) : c \in HubConnections }
Pending == { t \in Sessions : sessions[t].pc # "none" }
RoomInInbox ==
    \A n \in Received : n + Cardinality(Pending) < MaxInbox

\* inbox after `data` went to the connections of `to`.
Deliver(data, to) ==
    [c \in HubConnections |->
        IF c \in to THEN Append(inbox[c], data) ELSE inbox[c]]

\* `updated = await update_triage_status(notification_id, status)`, and the
\* 404 when it returns False.
action_update(t, notification_id, action) ==
    /\ sessions[t].pc = "none"
    /\ RoomInInbox
    /\ records' = update_triage_status(notification_id, ActionStatus(action),
                                       NoTime)
    /\ IF update_triage_status_result(notification_id)
       THEN /\ sessions' = [sessions EXCEPT ![t] =
                               [pc |-> "updated",
                                notification_id |-> notification_id,
                                action |-> action]]
            /\ UNCHANGED ret
       ELSE /\ ret' = [op |-> "action_notification",
                       notification_id |-> notification_id,
                       action |-> action, code |-> 404,
                       status |-> "not found", events |-> << >>]
            /\ UNCHANGED sessions
    /\ UNCHANGED <<now, active_connections, upserted, in_flight, adapterVars,
                   syncVars, registryVars, emitting, inbox,
                   restartVars>>

\* `await ws_manager.send_update(notification_id, {...})` and the return.
action_send(t, failing) ==
    /\ sessions[t].pc = "updated"
    /\ \E order \in IterationOrders(active_connections) :
         LET out == SendAll(order, failing)
             message == UpdateMessage(sessions[t].notification_id,
                            ActionUpdates(sessions[t].action,
                                          DefaultSnoozeMinutes))
         IN
         /\ active_connections' = AfterBroadcast(out.dead)
         /\ in_flight' = Interleaved(out.dead, {})
         /\ inbox' = Deliver(message, out.delivered)
         /\ ret' = [op |-> "action_notification",
                    notification_id |-> sessions[t].notification_id,
                    action |-> sessions[t].action, code |-> 200,
                    status |-> ActionStatus(sessions[t].action),
                    events |-> << [message |-> message,
                                   to |-> out.delivered] >>]
    /\ sessions' = [sessions EXCEPT ![t] = NoSession]
    /\ UNCHANGED <<records, now, upserted, adapterVars, syncVars,
                   registryVars, emitting, restartVars>>

NextActions ==
    \/ \E c \in Contents : save_notification(Notification("gmail", "m1", c))
    \/ \E c \in {"ws1", "ws2"} : connect(c)
    \/ \E t \in Sessions, id \in Ids, a \in {"archive", "mark_read"} :
          action_update(t, id, a)
    \/ \E t \in Sessions, failing \in SUBSET {"ws2"} : action_send(t, failing)

SpecActions == Init /\ [][NextActions]_vars

(***************************************************************************)
(* main.py: websocket_endpoint as the calls it awaits, ws_manager.connect,  *)
(* registry.fetch_all_recent and websocket.send_text, with broadcasts of    *)
(* other requests running in between.                                       *)
(***************************************************************************)
InitialLoadMessage(notifications) ==
    WebSocketMessage("initial_load", [notifications |-> notifications])

\* `await ws_manager.connect(websocket)`: accept, then add to the set; the
\* handler goes on to await fetch_all_recent.
ws_connect(t, websocket) ==
    /\ sessions[t].pc = "none"
    /\ websocket \notin active_connections
    /\ \A u \in Sessions :
          sessions[u].pc = "fetching" => sessions[u].websocket # websocket
    /\ RoomInInbox
    /\ active_connections' = active_connections \cup {websocket}
    /\ \E ahead \in SUBSET {websocket} : in_flight' = Interleaved({}, ahead)
    /\ sessions' = [sessions EXCEPT ![t] =
                       [pc |-> "fetching", websocket |-> websocket]]
    /\ UNCHANGED <<records, now, ret, upserted, adapterVars, syncVars,
                   registryVars, emitting, inbox,
                   restartVars>>

\* fetch_all_recent has returned: send_text of the initial_load event to
\* this websocket, and ws_manager.disconnect when send_text raises.
ws_initial_load(t, outcomes, send_fails) ==
    /\ sessions[t].pc = "fetching"
    /\ LET websocket == sessions[t].websocket
           message == InitialLoadMessage(
                          FetchAllRecent(outcomes, InitialLoadLimit))
       IN
       /\ IF send_fails
          THEN /\ active_connections' = active_connections \ {websocket}
               /\ in_flight' = Interleaved({websocket}, {})
               /\ UNCHANGED inbox
          ELSE /\ inbox' = Deliver(message, {websocket})
               /\ UNCHANGED <<active_connections, in_flight>>
       /\ ret' = [op |-> "initial_load", to |-> websocket,
                  sent |-> ~send_fails,
                  notifications |-> message.data.notifications]
    /\ sessions' = [sessions EXCEPT ![t] = NoSession]
    /\ UNCHANGED <<records, now, upserted, adapterVars, syncVars,
                   registryVars, emitting, restartVars>>

NextConnect ==
    \/ \E c \in Contents : save_notification(Notification("gmail", "m1", c))
    \/ \E t \in Sessions, c \in {"ws1", "ws2"} : ws_connect(t, c)
    \/ \E t \in Sessions, o \in VendorOutcomes("gmail"),
          send_fails \in BOOLEAN :
          ws_initial_load(t, <<o>>, send_fails)
    \/ \E t \in Sessions, id \in Ids : action_update(t, id, "mark_read")
    \/ \E t \in Sessions : action_send(t, {})

SpecConnect == Init /\ [][NextConnect]_vars

(***************************************************************************)
(* services/base.py: the lifecycle of one adapter.  start() and stop() are *)
(* called one after the other, start() on an adapter that is not started   *)
(* (start_all at startup; the OAuth callback calls stop() and then         *)
(* start()).  The listener task runs between the awaits of these calls.    *)
(* A connection_status broadcast is one step (see the hub above); connect()*)
(* of every adapter catches its errors and returns True or False.          *)
(***************************************************************************)
RetryDelaySeconds == 5

\* Variant of start() that marks the adapter running whatever connect() said.
StartRunning_Always(connected) == TRUE

\* start(): _running after the `if connected:` test.
StartRunning(connected) == connected

\* start(), up to the return of `await self.connect()`.
start_connect(connected) ==
    /\ call.op = "none"
    /\ phase \in {"new", "stopped"}
    /\ call' = [op |-> "start", pc |-> "connected",
                connected |-> connected, spawned |-> 0]
    /\ session' = connected
    /\ failures' = 0
    /\ since_fail' = << >>
    /\ ret' = Idle
    /\ UNCHANGED <<running, task, phase, last_status, nonAdapterVars>>

\* start(): self._running = True; self._task = create_task(_run_listener()).
start_spawn ==
    /\ call.op = "start"
    /\ call.pc = "connected"
    /\ StartRunning(call.connected)
    /\ running' = TRUE
    /\ task' = [pc |-> "created", cancel |-> FALSE]
    /\ call' = [call EXCEPT !.pc = "status", !.spawned = @ + 1]
    /\ ret' = Idle
    /\ UNCHANGED <<phase, session, last_status, since_fail, failures,
                   nonAdapterVars>>

\* start(): send_connection_status(True) after the spawn, or
\* send_connection_status(False) in the else branch; start() returns.
start_status ==
    /\ call.op = "start"
    /\ \/ call.pc = "status"
       \/ call.pc = "connected" /\ ~StartRunning(call.connected)
    /\ last_status' = IF call.pc = "status" THEN "true" ELSE "false"
    /\ ret' = [op |-> "start", connected |-> call.connected,
               running |-> running, spawned |-> call.spawned,
               sent |-> IF call.pc = "status" THEN "true" ELSE "false",
               task_pc |-> task.pc]
    /\ call' = NoCall
    /\ phase' = "started"
    /\ UNCHANGED <<running, task, session, since_fail, failures, nonAdapterVars>>

\* Variant of stop() that does not wait for the cancelled task.
TaskAwaited_NoWait(t) == TRUE

\* `await self._task` returns (or raises the suppressed CancelledError) once
\* the task is done.
TaskAwaited(t) == t.pc = "done"

\* stop(): self._running = False; if self._task: self._task.cancel().
\* cancel() on a finished task does nothing.
stop_cancel ==
    /\ call.op = "none"
    /\ running' = FALSE
    /\ task' = IF task.pc \in {"none", "done"} THEN task
               ELSE [task EXCEPT !.cancel = TRUE]
    /\ call' = [op |-> "stop",
                pc |-> IF task.pc = "none" THEN "disconnect" ELSE "await",
                connected |-> FALSE, spawned |-> 0]
    /\ ret' = Idle
    /\ UNCHANGED <<phase, session, last_status, since_fail, failures,
                   nonAdapterVars>>

\* stop(): with suppress(CancelledError): await self._task.
stop_await ==
    /\ call.op = "stop"
    /\ call.pc = "await"
    /\ TaskAwaited(task)
    /\ call' = [call EXCEPT !.pc = "disconnect"]
    /\ ret' = Idle
    /\ UNCHANGED <<running, task, phase, session, last_status, since_fail,
                   failures, nonAdapterVars>>

\* stop(): await self.disconnect().
stop_disconnect ==
    /\ call.op = "stop"
    /\ call.pc = "disconnect"
    /\ session' = FALSE
    /\ call' = [call EXCEPT !.pc = "status"]
    /\ ret' = [op |-> "disconnect", task_pc |-> task.pc]
    /\ UNCHANGED <<running, task, phase, last_status, since_fail, failures,
                   nonAdapterVars>>

\* stop(): send_connection_status(False); stop() returns.
stop_status ==
    /\ call.op = "stop"
    /\ call.pc = "status"
    /\ last_status' = "false"
    /\ ret' = [op |-> "stop", task_pc |-> task.pc, session |-> session]
    /\ call' = NoCall
    /\ phase' = "stopped"
    /\ UNCHANGED <<running, task, session, since_fail, failures, nonAdapterVars>>

\* `while self._running:` followed by `await self.listen()`, or the end of
\* the coroutine.
LoopTest(t) ==
    IF running THEN [t EXCEPT !.pc = "listen"] ELSE [t EXCEPT !.pc = "done"]

\* The task runs for the first time.
listener_begin ==
    /\ task.pc = "created"
    /\ ~task.cancel
    /\ task' = LoopTest(task)
    /\ ret' = Idle
    /\ UNCHANGED <<running, call, phase, session, last_status, since_fail,
                   failures, nonAdapterVars>>

\* listen() emits a notification (emit_notification).
listener_emit ==
    /\ task.pc = "listen"
    /\ ~task.cancel
    /\ ret' = [op |-> "emit_notification", phase |-> phase,
               call |-> call.op]
    /\ UNCHANGED <<adapterVars, nonAdapterVars>>

\* Variant of the error handler that ends the listener.
OnListenError_Terminates(t) == [t EXCEPT !.pc = "done"]

\* `except Exception`: the status broadcast is done and the sleep begins.
OnListenError(t) == [t EXCEPT !.pc = "sleep"]

\* listen() raises an exception other than CancelledError: the handler
\* broadcasts connection_status False and starts asyncio.sleep(5).
listener_error ==
    /\ task.pc = "listen"
    /\ ~task.cancel
    /\ failures < MaxFailures
    /\ failures' = failures + 1
    /\ last_status' = "false"
    /\ since_fail' = <<"status_false">>
    /\ task' = OnListenError(task)
    /\ ret' = Idle
    /\ UNCHANGED <<running, call, phase, session, nonAdapterVars>>

\* asyncio.sleep(5) is over: `if self._running:` connect() is called.
listener_slept ==
    /\ task.pc = "sleep"
    /\ ~task.cancel
    /\ IF running
       THEN /\ task' = [task EXCEPT !.pc = "connect"]
            /\ since_fail' = since_fail \o <<"sleep", "connect">>
       ELSE /\ task' = LoopTest(task)
            /\ since_fail' = Append(since_fail, "sleep")
    /\ ret' = Idle
    /\ UNCHANGED <<running, call, phase, session, last_status, failures,
                   nonAdapterVars>>

\* The retried connect() returns (its result is not used); the loop test
\* follows and listen() is called again.
listener_reconnected(connected) ==
    /\ task.pc = "connect"
    /\ ~task.cancel
    /\ session' = connected
    /\ task' = LoopTest(task)
    /\ since_fail' = IF running THEN Append(since_fail, "listen")
                     ELSE since_fail
    /\ ret' = Idle
    /\ UNCHANGED <<running, call, phase, last_status, failures, nonAdapterVars>>

\* CancelledError is thrown into the task where it waits: listen() lets it
\* through to `except CancelledError: break`; in the handler (sleep, connect)
\* it leaves the coroutine; a task that never ran is cancelled as it is.
listener_cancelled ==
    /\ task.cancel
    /\ task.pc \in {"created", "listen", "sleep", "connect"}
    /\ task' = [pc |-> "done", cancel |-> FALSE]
    /\ ret' = [op |-> "cancelled", at |-> task.pc]
    /\ UNCHANGED <<running, call, phase, session, last_status, since_fail,
                   failures, nonAdapterVars>>

ListenerStep ==
    \/ listener_begin
    \/ listener_slept
    \/ \E connected \in BOOLEAN : listener_reconnected(connected)
    \/ listener_cancelled

CallStep ==
    \/ start_spawn
    \/ start_status
    \/ stop_await
    \/ stop_disconnect
    \/ stop_status

NextAdapter ==
    \/ \E connected \in BOOLEAN : start_connect(connected)
    \/ stop_cancel
    \/ CallStep
    \/ ListenerStep
    \/ listener_emit
    \/ listener_error

SpecAdapter == Init /\ [][NextAdapter]_vars

\* The event loop runs every task that can run: a call in progress and the
\* listener take their steps; whether the vendor fails, and whether anybody
\* calls start() or stop(), is left open.
FairSpecAdapter ==
    SpecAdapter /\ WF_vars(CallStep) /\ WF_vars(ListenerStep)

(***************************************************************************)
(* main.py google_oauth_callback: `await svc.stop(); await svc.start()` on  *)
(* one Gmail adapter, run by coroutines whose calls overlap, and the        *)
(* listener tasks start() creates (services/base.py).                       *)
(***************************************************************************)
\* The tasks that have been created and are not done.
LiveTasks == { i \in TaskIds : tasks[i].pc \in {"created", "listen", "sleep"} }

\* asyncio.create_task: the next task.
NewTask == CHOOSE i \in TaskIds :
               /\ tasks[i].pc = "none"
               /\ \A j \in TaskIds : tasks[j].pc = "none" => i <= j

restartFrame == <<records, now, active_connections, ret, upserted, in_flight,
                  task, call, phase, session, last_status, since_fail,
                  failures, syncVars, registryVars, emitting, inbox>>

\* stop(): self._running = False; if self._task: self._task.cancel(), and
\* the await of that task begins.  cancel() on a finished task does nothing.
restart_stop(t) ==
    /\ sessions[t].pc = "none"
    /\ \E i \in TaskIds : tasks[i].pc = "none"
    /\ running' = FALSE
    /\ tasks' = IF task_ref # 0 /\ tasks[task_ref].pc # "done"
                THEN [tasks EXCEPT ![task_ref].cancel = TRUE]
                ELSE tasks
    /\ sessions' = [sessions EXCEPT ![t] =
                       [pc |-> "stopping", awaited |-> task_ref]]
    /\ UNCHANGED <<task_ref, restartFrame>>

\* stop(): `await self._task` is over for the task that was awaited; then
\* disconnect() and send_connection_status(False); stop() returns and the
\* callback calls start().
restart_stopped(t) ==
    /\ sessions[t].pc = "stopping"
    /\ sessions[t].awaited # 0 => TaskAwaited(tasks[sessions[t].awaited])
    /\ sessions' = [sessions EXCEPT ![t] = [pc |-> "starting"]]
    /\ UNCHANGED <<running, tasks, task_ref, restartFrame>>

\* start(): connect() has returned; when connected, self._running = True
\* and self._task = asyncio.create_task(self._run_listener()); then the
\* connection_status broadcast, and start() returns.
restart_start(t, connected) ==
    /\ sessions[t].pc = "starting"
    /\ StartRunning(connected) => \E i \in TaskIds : tasks[i].pc = "none"
    /\ IF StartRunning(connected)
       THEN /\ running' = TRUE
            /\ tasks' = [tasks EXCEPT ![NewTask] =
                            [pc |-> "created", cancel |-> FALSE]]
            /\ task_ref' = NewTask
       ELSE UNCHANGED <<running, tasks, task_ref>>
    /\ sessions' = [sessions EXCEPT ![t] = NoSession]
    /\ UNCHANGED restartFrame

\* _run_listener of task i: the loop test and listen(), an exception of
\* listen() and the handler's sleep and reconnect, back to the loop test.
restart_task_runs(i) ==
    /\ ~tasks[i].cancel
    /\ \/ /\ tasks[i].pc \in {"created", "sleep"}
          /\ tasks' = [tasks EXCEPT ![i] = LoopTest(tasks[i])]
       \/ /\ tasks[i].pc = "listen"
          /\ tasks' = [tasks EXCEPT ![i] = OnListenError(tasks[i])]
    /\ UNCHANGED <<running, sessions, task_ref, restartFrame>>

\* CancelledError reaches task i where it waits.
restart_task_cancelled(i) ==
    /\ tasks[i].cancel
    /\ tasks[i].pc \in {"created", "listen", "sleep"}
    /\ tasks' = [tasks EXCEPT ![i] = [pc |-> "done", cancel |-> FALSE]]
    /\ UNCHANGED <<running, sessions, task_ref, restartFrame>>

NextRestart ==
    \/ \E t \in Sessions : restart_stop(t)
    \/ \E t \in Sessions : restart_stopped(t)
    \/ \E t \in Sessions, connected \in BOOLEAN : restart_start(t, connected)
    \/ \E i \in TaskIds : restart_task_runs(i)
    \/ \E i \in TaskIds : restart_task_cancelled(i)

SpecRestart == Init /\ [][NextRestart]_vars

(***************************************************************************)
(* services/gmail_service.py, outlook_service.py, asana_service.py and     *)
(* plane_service.py: the polling loop of listen() and its sync cursor.     *)
(* One poll cycle is one step, and so is one fetch_recent call, which a    *)
(* client request can cause while listen() sleeps between two cycles.      *)
(***************************************************************************)
SyncKinds == {"gmail", "outlook", "asana", "plane"}

\* The ids of the vendor's items.
Messages == {"m1", "m2"}

\* The order in which a vendor lists its items in one answer.
ItemOrder == <<"m1", "m2">>

\* What a successful vendor request answers: the items it reports, which of
\* them cannot be converted (a missing id, an unreadable date, a failing
\* messages.get), and whether the answer carries a position (historyId,
\* @odata.deltaLink).
Responses ==
    { r \in [items : SUBSET Messages, malformed : SUBSET Messages,
              has_position : BOOLEAN] : r.malformed \subseteq r.items }

\* The answer's items as the list the adapter iterates over.
Batch(resp) == SelectSeq(ItemOrder, LAMBDA m : m \in resp.items)

\* How a vendor request ends: "ok", "invalid" (the cursor is rejected: Gmail
\* 404 on startHistoryId, Graph 410 on a delta link) or "error" (any other
\* failure of the request).
Outcomes == {"ok", "invalid", "error"}

\* `if self._last_history_id:`, `if self._delta_link:`, `if self._last_check:`
Truthy(c) == c \notin {NoCursor, EmptyCursor}

Mode(c) == IF Truthy(c) THEN "incremental" ELSE "full"

\* results.get("historyId") / data.get("@odata.deltaLink")
Reported(resp) == IF resp.has_position THEN position ELSE NoCursor

\* Variant that moves the cursor only when the answer reports items.
CursorAfterIncremental_OnlyOnChanges(k, c, resp) ==
    IF resp.items = {} THEN c
    ELSE IF k \in {"asana", "plane"} \/ resp.has_position THEN position
    ELSE IF k = "gmail" THEN c ELSE NoCursor

\* The cursor after an incremental request that succeeded.
CursorAfterIncremental(k, c, resp) ==
    CASE k = "gmail" ->
           IF Reported(resp) # NoCursor THEN Reported(resp) ELSE c
      [] k = "outlook" -> Reported(resp)
      [] OTHER -> position

\* str(profile.get("historyId", "")) of Gmail's getProfile.
ProfileHistoryId(resp) == IF resp.has_position THEN position ELSE EmptyCursor

\* The cursor after a request without cursor that succeeded.
CursorAfterFull(k, resp) ==
    CASE k = "gmail" -> ProfileHistoryId(resp)
      [] k = "outlook" -> Reported(resp)
      [] OTHER -> position

\* Whether the failure leaves listen(): Outlook re-raises an HTTPStatusError
\* other than 401; the other loops print the error and go on.
LeavesListen(k, outcome) == k = "outlook" /\ outcome = "invalid"

\* The cursor after the vendor rejected it: Gmail resets it to None.
CursorAfterInvalid(k, c) == IF k = "gmail" THEN NoCursor ELSE c

\* Variant of Gmail's test that takes every listed id for new.
Unseen_Always(id, seen) == TRUE

\* `if msg_id not in self._seen_ids`
Unseen(id, seen) == id \notin seen

\* The item loop of a listen cycle.  Gmail skips the ids it has seen, marks
\* an id seen before it converts it, and its _message_to_notification returns
\* None for an item it cannot convert.  The conversion of the other adapters
\* raises, and the exception leaves the loop for the handler around it.
RECURSIVE ListenBatch(_, _, _, _)
ListenBatch(k, batch, malformed, seen) ==
    IF batch = << >>
    THEN [emitted |-> {}, seen |-> seen, aborted |-> FALSE]
    ELSE LET id == Head(batch) IN
         IF k = "gmail"
         THEN IF ~Unseen(id, seen)
              THEN ListenBatch(k, Tail(batch), malformed, seen)
              ELSE LET rest == ListenBatch(k, Tail(batch), malformed,
                                           seen \cup {id}) IN
                   IF id \in malformed THEN rest
                   ELSE [rest EXCEPT !.emitted = @ \cup {id}]
         ELSE IF id \in malformed
              THEN [emitted |-> {}, seen |-> seen, aborted |-> TRUE]
              ELSE LET rest == ListenBatch(k, Tail(batch), malformed, seen) IN
                   [rest EXCEPT !.emitted = @ \cup {id}]

\* The item loop of fetch_recent: Gmail marks every listed id seen and
\* returns those it can convert; the others return what they had converted
\* when the conversion raised.
RECURSIVE FetchBatch(_, _, _)
FetchBatch(k, batch, malformed) ==
    IF batch = << >>
    THEN [returned |-> {}, aborted |-> FALSE]
    ELSE LET id == Head(batch) IN
         IF id \in malformed /\ k # "gmail"
         THEN [returned |-> {}, aborted |-> TRUE]
         ELSE LET rest == FetchBatch(k, Tail(batch), malformed) IN
              IF id \in malformed THEN rest
              ELSE [rest EXCEPT !.returned = @ \cup {id}]

\* One pass of the `while self._running:` body of listen(), up to the sleep
\* (or to the exception that leaves listen(), after which _run_listener
\* broadcasts connection_status False).
listen_cycle(outcome, resp) ==
    LET mode == Mode(cursor)
        ok == outcome = "ok"
        done == IF ok THEN ListenBatch(kind, Batch(resp), resp.malformed,
                                       seen_ids)
                ELSE [emitted |-> {}, seen |-> seen_ids, aborted |-> FALSE]
        emitted == done.emitted
        after == CASE ok /\ done.aborted -> cursor
                   [] ok /\ mode = "incremental" ->
                        CursorAfterIncremental(kind, cursor, resp)
                   [] ok /\ mode = "full" -> CursorAfterFull(kind, resp)
                   [] outcome = "invalid" -> CursorAfterInvalid(kind, cursor)
                   [] OTHER -> cursor
        left == LeavesListen(kind, outcome)
    IN  /\ sync_pc = "poll"
        /\ outcome = "invalid" =>
               mode = "incremental" /\ kind \in {"gmail", "outlook"}
        /\ cursor' = after
        /\ seen_ids' = done.seen
        /\ sync_pc' = IF left THEN "left" ELSE "sleep"
        /\ after_invalid' = (outcome = "invalid")
        /\ ret' = [op |-> "listen_cycle", kind |-> kind, mode |-> mode,
                   outcome |-> outcome,
                   items |-> IF ok THEN resp.items ELSE {},
                   malformed |-> IF ok THEN resp.malformed ELSE {},
                   reported |-> IF ok THEN Reported(resp) ELSE NoCursor,
                   emitted |-> emitted, aborted |-> done.aborted,
                   seen_before |-> seen_ids,
                   before |-> cursor, after |-> after,
                   position |-> position, left |-> left,
                   status_sent |-> left, prev_invalid |-> after_invalid]
        /\ UNCHANGED <<kind, position, nonSyncVars>>

\* asyncio.sleep(self._poll_interval) is over.
poll_interval_over ==
    /\ sync_pc = "sleep"
    /\ sync_pc' = "poll"
    /\ ret' = Idle
    /\ UNCHANGED <<kind, cursor, position, seen_ids, after_invalid,
                   nonSyncVars>>

\* _run_listener, after listen() raised: delay, connect(), listen() again.
listen_again ==
    /\ sync_pc = "left"
    /\ sync_pc' = "poll"
    /\ ret' = Idle
    /\ UNCHANGED <<kind, cursor, position, seen_ids, after_invalid,
                   nonSyncVars>>

\* fetch_recent(): Gmail marks the listed ids as seen and seeds the cursor
\* from the profile when it has none; a failure is printed and the list
\* built so far returned.  The other adapters touch no sync state.
fetch_recent(outcome, resp) ==
    LET ok == outcome = "ok"
        done == IF ok THEN FetchBatch(kind, Batch(resp), resp.malformed)
                ELSE [returned |-> {}, aborted |-> FALSE]
    IN  /\ outcome \in {"ok", "error"}
        /\ IF kind = "gmail" /\ ok
           THEN /\ seen_ids' = seen_ids \cup resp.items
                /\ cursor' = IF Truthy(cursor) THEN cursor
                             ELSE ProfileHistoryId(resp)
           ELSE UNCHANGED <<seen_ids, cursor>>
        /\ ret' = [op |-> "fetch_recent", kind |-> kind,
                   outcome |-> outcome,
                   items |-> IF ok THEN resp.items ELSE {},
                   malformed |-> IF ok THEN resp.malformed ELSE {},
                   reported |-> IF ok THEN Reported(resp) ELSE NoCursor,
                   returned |-> done.returned, aborted |-> done.aborted,
                   before |-> cursor, after |-> cursor']
        /\ UNCHANGED <<kind, position, sync_pc, after_invalid, nonSyncVars>>

\* stop() followed by start() on the same adapter object while listen()
\* sleeps or has been left: the new listener task calls listen() afresh; the
\* cursor and _seen_ids are fields of the object and stay.
restart ==
    /\ sync_pc \in {"sleep", "left"}
    /\ sync_pc' = "poll"
    /\ ret' = [op |-> "restart"]
    /\ UNCHANGED <<kind, cursor, position, seen_ids, after_invalid,
                   nonSyncVars>>

\* The vendor's history moves on (for Asana and Plane: time passes), with or
\* without an item the adapter would report.
vendor_advance ==
    /\ position < MaxPos
    /\ position' = position + 1
    /\ ret' = Idle
    /\ UNCHANGED <<kind, cursor, seen_ids, sync_pc, after_invalid,
                   nonSyncVars>>

InitSync ==
    /\ InitStore
    /\ InitAdapter
    /\ InitRegistryOf(<< >>)
    /\ ret = Idle
    /\ \E k \in SyncKinds : InitSyncOf(k)

NextSync ==
    \/ \E outcome \in Outcomes, resp \in Responses :
          listen_cycle(outcome, resp)
    \/ poll_interval_over
    \/ listen_again
    \/ \E outcome \in Outcomes, resp \in Responses :
          fetch_recent(outcome, resp)
    \/ vendor_advance
    \/ restart

SpecSync == InitSync /\ [][NextSync]_vars

(***************************************************************************)
(* services/gmail_service.py: _poll_incremental when emit_notification may  *)
(* raise (a failing save_notification or broadcast).                        *)
(***************************************************************************)
\* The loop over the messagesAdded of a history answer: an unseen id is
\* marked seen, then converted (None for a malformed one), then emitted; an
\* exception of emit_notification leaves the loop.
RECURSIVE IncrementalLoop(_, _, _, _)
IncrementalLoop(batch, malformed, failing, seen) ==
    IF batch = << >>
    THEN [emitted |-> {}, seen |-> seen, raised |-> FALSE]
    ELSE LET id == Head(batch) IN
         IF ~Unseen(id, seen)
         THEN IncrementalLoop(Tail(batch), malformed, failing, seen)
         ELSE IF id \in malformed
         THEN IncrementalLoop(Tail(batch), malformed, failing, seen \cup {id})
         ELSE IF id \in failing
         THEN [emitted |-> {}, seen |-> seen \cup {id}, raised |-> TRUE]
         ELSE LET rest == IncrementalLoop(Tail(batch), malformed, failing,
                                          seen \cup {id}) IN
              [rest EXCEPT !.emitted = @ \cup {id}]

\* One pass of listen() with a cursor: history.list answers `resp`, the
\* cursor takes the answer's historyId, the loop runs, and an exception that
\* leaves _poll_incremental is printed by listen(); then the sleep.
poll_incremental(resp, failing) ==
    LET done == IncrementalLoop(Batch(resp), resp.malformed, failing,
                                seen_ids)
    IN  /\ kind = "gmail"
        /\ sync_pc = "poll"
        /\ Truthy(cursor)
        /\ cursor' = CursorAfterIncremental(kind, cursor, resp)
        /\ seen_ids' = done.seen
        /\ sync_pc' = "sleep"
        /\ after_invalid' = FALSE
        /\ ret' = [op |-> "poll_incremental",
                   new |-> { m \in resp.items \ resp.malformed :
                               Unseen(m, seen_ids) },
                   emitted |-> done.emitted, raised |-> done.raised,
                   before |-> cursor]
        /\ UNCHANGED <<kind, position, nonSyncVars>>

InitGmailSync ==
    /\ InitStore
    /\ InitAdapter
    /\ InitRegistryOf(<< >>)
    /\ ret = Idle
    /\ InitSyncOf("gmail")

NextGmailSync ==
    \/ \E resp \in Responses : fetch_recent("ok", resp)
    \/ \E resp \in Responses, failing \in SUBSET Messages :
          poll_incremental(resp, failing)
    \/ poll_interval_over
    \/ vendor_advance

SpecGmailSync == InitGmailSync /\ [][NextGmailSync]_vars

(***************************************************************************)
(* main.py: the ServiceRegistry.  start_all registers and starts the       *)
(* configured adapters one after the other, stop_all stops the registered  *)
(* ones one after the other, and the reply branch of action_notification   *)
(* routes a reply through get_service_for_reply.  One start() or stop() of *)
(* an adapter is one step here (its own steps are the adapter's, above).   *)
(***************************************************************************)
ReplySources == {"gmail", "outlook", "slack", "asana", "plane"}

\* Accounts a reply request can name; the first is the configured one.
Accounts == {"a1", "a2"}

\* The adapter start_all builds for a source: BaseService.source / .account
\* (Asana and Plane pass a fixed account name).
Adapter(source) ==
    [source |-> source,
     account |-> CASE source = "asana" -> "Asana"
                   [] source = "plane" -> "Plane"
                   [] OTHER -> "a1"]

\* The order in which start_all goes through the settings.
StartOrder == <<"gmail", "outlook", "slack", "asana", "plane">>

\* The settings: which of the sources are configured.
Configurations ==
    { SelectSeq(StartOrder, LAMBDA x : x \in chosen) :
        chosen \in SUBSET ReplySources }

\* Variant of start_all that gives up at the first adapter that did not
\* connect.
ContinuesAfterStart_OnlyIfConnected(connected) == connected

\* start_all goes on to the next adapter whatever start() did: start()
\* returns normally in both of its branches.
ContinuesAfterStart(connected) == TRUE

\* start_all: the next configured adapter is built, appended to
\* registry.services and started; its connect() returns `connected`.
start_next(connected) ==
    /\ reg_pc \in {"created", "starting"}
    /\ Len(services) < Len(configured)
    /\ services' = Append(services,
                          Adapter(configured[Len(services) + 1]))
    /\ svc_running' = Append(svc_running, connected)
    /\ reg_pc' = IF ContinuesAfterStart(connected) THEN "starting"
                 ELSE "started"
    /\ ret' = Idle
    /\ UNCHANGED <<configured, stop_called, nonRegistryVars>>

\* start_all returns.
start_all_returns ==
    /\ reg_pc \in {"created", "starting"}
    /\ Len(services) = Len(configured)
    /\ reg_pc' = "started"
    /\ ret' = [op |-> "start_all"]
    /\ UNCHANGED <<configured, services, svc_running, stop_called,
                   nonRegistryVars>>

\* The match of get_service_for_reply: Gmail by email, Slack by workspace
\* name, Outlook the one Outlook adapter whatever the account, nothing for
\* the other sources.  The result is an index into services, 0 for None.
get_service_for_reply(source, account) ==
    LET hits ==
          CASE source \in {"gmail", "slack"} ->
                 { i \in DOMAIN services :
                     /\ services[i].source = source
                     /\ services[i].account = account }
            [] source = "outlook" ->
                 { i \in DOMAIN services : services[i].source = "outlook" }
            [] OTHER -> {}
    IN  IF hits = {} THEN 0
        ELSE CHOOSE i \in hits : \A j \in hits : i <= j

\* How service.reply ends: Gmail and Outlook return True or False (their
\* reply catches its errors); the others inherit or define a reply that
\* raises NotImplementedError.
ReplyEnds(source) ==
    IF source \in {"gmail", "outlook"} THEN {"true", "false"}
    ELSE {"NotImplementedError"}

\* What the caller of the reply action gets.
ReplyResult(service, ended) ==
    CASE service = 0 -> [code |-> 404, kind |-> "NotFound"]
      [] ended = "true" -> [code |-> 200, kind |-> "replied"]
      [] ended = "false" -> [code |-> 500, kind |-> "ReplyFailed"]
      [] OTHER -> [code |-> 500, kind |-> "unhandled"]

\* POST /api/notifications/{id}/action with action "reply" and a payload
\* that names source, source_account and body.
reply_action(source, account, ended) ==
    LET service == get_service_for_reply(source, account) IN
    /\ reg_pc = "started"
    /\ service # 0 => ended \in ReplyEnds(services[service].source)
    /\ service = 0 => ended = "true"
    /\ ret' = [op |-> "reply", source |-> source, account |-> account,
               service |-> service,
               result |-> ReplyResult(service, ended),
               attempts |-> IF service = 0 THEN 0 ELSE 1]
    /\ UNCHANGED <<registryVars, nonRegistryVars>>

\* How one stop() can end inside stop_all: Slack's disconnect() awaits the
\* close of its socket, which can raise or not return; the other adapters'
\* disconnect() only clears a field.
StopEnds(adapter) ==
    IF adapter.source = "slack" THEN {"ok", "raises", "hangs"} ELSE {"ok"}

\* stop_all: `for service in self.services: await service.stop()`, one
\* adapter further.  An exception leaves the loop and stop_all; a stop()
\* that does not return keeps stop_all where it is.
stop_next(ended) ==
    LET i == Cardinality(stop_called) + 1 IN
    /\ reg_pc \in {"started", "stopping"}
    /\ i <= Len(services)
    /\ ended \in StopEnds(services[i])
    /\ stop_called' = stop_called \cup {i}
    /\ svc_running' = IF ended = "hangs" THEN svc_running
                      ELSE [svc_running EXCEPT ![i] = FALSE]
    /\ reg_pc' = CASE ended = "ok" -> "stopping"
                   [] ended = "raises" -> "stop_raised"
                   [] OTHER -> "stop_hung"
    /\ ret' = Idle
    /\ UNCHANGED <<configured, services, nonRegistryVars>>

\* stop_all returns.
stop_all_returns ==
    /\ reg_pc \in {"started", "stopping"}
    /\ Cardinality(stop_called) = Len(services)
    /\ reg_pc' = "stopped"
    /\ ret' = [op |-> "stop_all"]
    /\ UNCHANGED <<configured, services, svc_running, stop_called,
                   nonRegistryVars>>

InitRegistry ==
    /\ InitStore
    /\ InitAdapter
    /\ InitSyncOf("gmail")
    /\ ret = Idle
    /\ \E config \in Configurations : InitRegistryOf(config)

NextRegistry ==
    \/ \E connected \in BOOLEAN : start_next(connected)
    \/ start_all_returns
    \/ \E source \in ReplySources, account \in Accounts \cup {"Asana", "Plane"},
          ended \in {"true", "false", "NotImplementedError"} :
            reply_action(source, account, ended)
    \/ \E ended \in {"ok", "raises", "hangs"} : stop_next(ended)
    \/ stop_all_returns

SpecRegistry == InitRegistry /\ [][NextRegistry]_vars



(***************************************************************************)
(* Properties                                                              *)
(***************************************************************************)
Keys == Source \X SourceIds

RowsOf(k) == { r \in records : Key(r) = k }

\* The row of records' that continues row r (same primary key), if any.
Successors(r) == { r2 \in records' : r2.id = r.id }

\* C1: after any sequence of save_notification calls the table holds exactly
\* one row for every (source, source_id) ever saved, none for the others, and
\* that row carries the title, body, timestamp and priority of the latest
\* save for its key.
C1_OneRowPerKeyLatestContent ==
    \A k \in Keys :
        IF k \in DOMAIN upserted
        THEN /\ Cardinality(RowsOf(k)) = 1
             /\ \A r \in RowsOf(k) : Content(r) = upserted[k]
        ELSE RowsOf(k) = {}

\* A key saved again (update branch) while both keys are stored.
C1_Witness ==
    /\ ret.op = "save_notification"
    /\ ret.existing
    /\ ~ret.raised
    /\ Cardinality(records) = 2
    /\ \E r \in RowsOf(ret.key) : r.title = "t2" /\ r.triage_status = "read"

\* C2: a save_notification of a key that is already stored leaves the
\* triage_status and snoozed_until of that row as they were.
C2_UpsertKeepsTriage ==
    [][ret'.op = "save_notification" =>
          \A r \in records : \A r2 \in records' :
              Key(r2) = Key(r) =>
                  /\ r2.triage_status = r.triage_status
                  /\ r2.snoozed_until = r.snoozed_until]_vars

\* A snoozed row has just been re-observed.
C2_Witness ==
    /\ ret.op = "save_notification"
    /\ ret.existing
    /\ \E r \in RowsOf(ret.key) :
          r.triage_status = "snoozed" /\ r.snoozed_until # NoTime

\* C3: in every reachable state each row has snoozed_until non-null if and
\* only if its triage_status is snoozed.
C3_SnoozedUntilIffSnoozed ==
    \A r \in records :
        (r.snoozed_until # NoTime) <=> (r.triage_status = "snoozed")

\* C4: the id of a row is the one given at its insert: no step (save, triage
\* action, list, clock, hub) leaves the row of a key with another id.
C4_IdNeverChanges ==
    [][\A r \in records :
          \E r2 \in records' : Key(r2) = Key(r) /\ r2.id = r.id]_vars

\* A stored key has just been saved again (by an object carrying a fresh id),
\* after a triage action and with the other key stored too.
C4_Witness ==
    /\ ret.op = "save_notification"
    /\ ret.existing
    /\ Cardinality(records) = 2
    /\ \E r \in RowsOf(ret.key) : r.triage_status = "archived" /\ uuid4 # r.id

C6_ArchiveExclusion ==
    ret.op = "load_notifications" =>
        \A r \in records :
            r.triage_status = "archived" =>
                /\ ret.status_filter = "" =>
                      \A n \in Range(ret.notifications) : n.id # r.id
                /\ ( /\ ret.status_filter = "archived"
                     /\ Cardinality({ q \in records :
                                        /\ q.triage_status = "archived"
                                        /\ q.timestamp >= r.timestamp })
                           <= ret.limit ) =>
                      \E n \in Range(ret.notifications) : n = r

\* Two rows are archived and the archived listing with limit 1 has returned
\* one of them.
C6_Witness ==
    /\ ret.op = "load_notifications"
    /\ ret.status_filter = "archived"
    /\ ret.limit = 1
    /\ Cardinality({ r \in records : r.triage_status = "archived" }) = 2
    /\ Len(ret.notifications) = 1

\* C7: no step other than a triage action (a save, a list call with its lazy
\* expiry, the clock, the hub) takes a row out of archived.
C7_ArchivedStaysArchived ==
    [][ret'.op # "action_notification" =>
          \A r \in records :
              r.triage_status = "archived" =>
                  /\ Successors(r) # {}
                  /\ \A r2 \in Successors(r) : r2.triage_status = "archived"]_vars

\* A list call has selected an archived row whose old snooze time has passed.
C7_Witness ==
    /\ ret.op = "load_notifications"
    /\ \E n \in Range(ret.notifications) :
          /\ n.triage_status = "archived"
          /\ n.snoozed_until # NoTime
          /\ n.snoozed_until <= now
          /\ n \in records

\* C8: a row becomes snoozed only from unread or read.
C8_SnoozedOnlyFromUnreadOrRead ==
    [][\A r \in records : \A r2 \in Successors(r) :
          (r2.triage_status = "snoozed" /\ r.triage_status # "snoozed") =>
              r.triage_status \in {"unread", "read"}]_vars

\* C9: a triage action on an archived row leaves it archived.
C9_NoTransitionOutOfArchived ==
    [][ret'.op = "action_notification" =>
          \A r \in records :
              r.triage_status = "archived" =>
                  \A r2 \in Successors(r) : r2.triage_status = "archived"]_vars

\* C10: an archive, mark_read or snooze action on an id that is not stored
\* is rejected: update_triage_status returns false, the table is unchanged,
\* the response is 404 and nothing is broadcast.
C10_UnknownIdRejected ==
    [][(/\ ret'.op = "action_notification"
        /\ \A r \in records : r.id # ret'.notification_id) =>
          /\ ~update_triage_status_result(ret'.notification_id)
          /\ records' = records
          /\ ret'.code = 404
          /\ ret'.events = << >>
          /\ active_connections' = active_connections]_vars

\* An unknown id has been rejected while rows are stored and a client is
\* connected.
C10_Witness ==
    /\ ret.op = "action_notification"
    /\ ret.code = 404
    /\ ret.action = "snooze"
    /\ records # {}
    /\ active_connections # {}

\* C11: every notification a list call with a status filter returns has that
\* status in the returned data.
C11_FilteredListReturnsOnlyThatStatus ==
    (ret.op = "load_notifications" /\ ret.status_filter # "") =>
        \A n \in Range(ret.notifications) :
            n.triage_status = ret.status_filter

\* C12: when a list call made at time now has returned, no row of the table
\* is snoozed with snoozed_until <= now.
C12_NoExpiredSnoozeAfterList ==
    ret.op = "load_notifications" =>
        \A r \in records :
            ~(/\ r.triage_status = "snoozed"
              /\ r.snoozed_until # NoTime
              /\ r.snoozed_until <= now)

\* C13: a broadcast during which some deliveries raise still tries every
\* registered connection, raises nothing to its caller, delivers the event to
\* exactly the registered connections whose delivery did not raise, removes
\* exactly the failed ones and keeps the others; a connection that is not
\* registered receives nothing, and only connect registers a connection.
C13_BroadcastIsolatesFailures ==
    [][/\ ret'.op = "broadcast" =>
            /\ ret'.attempted = active_connections
            /\ ~ret'.raised
            /\ ret'.to = active_connections \ ret'.failing
            /\ active_connections' = active_connections \ ret'.failing
       /\ \A c \in HubConnections :
            (c \in active_connections' /\ c \notin active_connections) =>
                ret'.op = "idle" /\ active_connections' =
                                      active_connections \cup {c}]_vars

\* Three connections were registered, delivery to one of them raised, the two
\* others received the event and stay registered.
C13_Witness ==
    /\ ret.op = "broadcast"
    /\ Cardinality(ret.attempted) = 3
    /\ Cardinality(ret.attempted \cap ret.failing) = 1
    /\ Cardinality(ret.to) = 2
    /\ active_connections = ret.to

\* C14: fetch_all_recent does not raise when some fetch_recent raised, and
\* returns the first `limit` elements of the newest-first ordering of what the
\* fetch_recent calls that did not raise returned: Min(limit, total) distinct
\* elements of those lists, newest first, none of the left-out elements newer
\* than a returned one.
C14_FetchAllRecentMergesSurvivors ==
    ret.op = "fetch_all_recent" =>
        LET pool == UNION { Range(ret.outcomes[i].list) :
                              i \in { j \in DOMAIN ret.outcomes :
                                        ~ret.outcomes[j].raised } }
            out == ret.notifications
        IN  /\ ~ret.raised
            /\ Len(out) = Min(ret.limit, Cardinality(pool))
            /\ Range(out) \subseteq pool
            /\ \A i, j \in DOMAIN out :
                   i < j => /\ out[i] # out[j]
                            /\ out[i].timestamp >= out[j].timestamp
            /\ \A x \in pool \ Range(out), y \in Range(out) :
                   x.timestamp <= y.timestamp

\* The second service raised, the first and third returned notifications, and
\* the result holds one of each with the newer one (from the third) first.
C14_Witness ==
    /\ ret.op = "fetch_all_recent"
    /\ ret.outcomes[2].raised
    /\ ~ret.raised
    /\ Len(ret.notifications) = 2
    /\ ret.notifications[1].source = FetchServices[3]
    /\ ret.notifications[2].source = FetchServices[1]
    /\ ret.notifications[1].timestamp > ret.notifications[2].timestamp

\* C15: when start() returns, either connect() returned true, the adapter is
\* running, this call spawned exactly one listener task (which is alive) and
\* broadcast connection_status=true; or connect() returned false, the adapter
\* is not running, the call spawned no task, no listener task is alive, and it
\* broadcast connection_status=false.
C15_StartHasTwoOutcomes ==
    ret.op = "start" =>
        IF ret.connected
        THEN /\ ret.running /\ running
             /\ ret.spawned = 1
             /\ ret.task_pc \in {"created", "listen", "sleep", "connect"}
             /\ ret.sent = "true"
        ELSE /\ ~ret.running /\ ~running
             /\ ret.spawned = 0
             /\ ret.task_pc \in {"none", "done"}
             /\ ret.sent = "false"

\* start() has returned after a successful connect(); its new listener task
\* has not run yet.
C15_Witness ==
    /\ ret.op = "start"
    /\ ret.connected
    /\ task.pc = "created"
    /\ last_status = "true"

\* C16: while the adapter is running (no stop() since the last start()), a
\* listen() failure never ends the listener task, and what the task has done
\* since its last failure is, in this order, the connection_status=false
\* broadcast, the retry delay, the connect() retry and the new listen() call,
\* up to where the task now is; this holds after each failure.
C16_ListenFailureIsRetried ==
    (running /\ failures > 0) =>
        /\ task.pc \in {"sleep", "connect", "listen"}
        /\ task.pc = "sleep" => since_fail = <<"status_false">>
        /\ task.pc = "connect" =>
               since_fail = <<"status_false", "sleep", "connect">>
        /\ task.pc = "listen" =>
               since_fail = <<"status_false", "sleep", "connect", "listen">>

\* listen() has raised twice and the listener, still running, is in listen()
\* again after the second retry.
C16_Witness ==
    /\ running
    /\ failures = 2
    /\ task.pc = "listen"
    /\ since_fail = <<"status_false", "sleep", "connect", "listen">>

\* C17: once listen() has raised and the retried connect() has succeeded, a
\* connection_status=true event is eventually broadcast, unless stop() is
\* called first.
C17_ReconnectLeadsToStatusTrue ==
    (/\ running
     /\ failures > 0
     /\ session
     /\ task.pc = "listen"
     /\ since_fail = <<"status_false", "sleep", "connect", "listen">>)
        ~> (last_status = "true" \/ ~running)

\* C18: disconnect() is invoked in stop() only when the listener task has
\* terminated; when stop() returns the task is not running, the session is
\* closed and the last connection_status broadcast is false; and no
\* notification is emitted between the return of stop() and the next start().
C18_StopOrdersItsSteps ==
    /\ ret.op = "disconnect" => ret.task_pc \in {"none", "done"}
    /\ ret.op = "stop" =>
           /\ ret.task_pc \in {"none", "done"}
           /\ task.pc \in {"none", "done"}
           /\ ~session
           /\ last_status = "false"
    /\ ret.op = "emit_notification" =>
           ~(ret.phase = "stopped" /\ ret.call = "none")
    /\ (phase = "stopped" /\ call.op = "none") => task.pc \in {"none", "done"}

\* stop() has returned after cancelling the listener inside the retried
\* connect().
C18_Witness ==
    /\ ret.op = "stop"
    /\ task.pc = "done"
    /\ failures > 0
    /\ since_fail = <<"status_false", "sleep", "connect">>

\* C19: an incremental cycle that succeeds and reports no items leaves the
\* cursor at the position the vendor reported for that fetch (Gmail historyId,
\* Outlook delta link; for Asana and Plane the time of the check), never at
\* an older one.
C19_CursorAdvancesWithoutChanges ==
    (/\ ret.op = "listen_cycle"
     /\ ret.mode = "incremental"
     /\ ret.outcome = "ok"
     /\ ret.items = {}) =>
        /\ cursor = ret.after
        /\ ret.kind \in {"asana", "plane"} => ret.after = ret.position
        /\ (ret.kind \in {"gmail", "outlook"} /\ ret.reported # NoCursor) =>
               ret.after = ret.reported /\ ret.after >= ret.before
        /\ ret.position > ret.before =>
               (ret.after # ret.before \/ ret.reported = NoCursor)

\* An incremental Gmail cycle found nothing new, and the cursor moved forward
\* to the vendor's position.
C19_Witness ==
    /\ ret.op = "listen_cycle"
    /\ ret.kind = "gmail"
    /\ ret.mode = "incremental"
    /\ ret.outcome = "ok"
    /\ ret.items = {}
    /\ ret.before < ret.after
    /\ cursor = ret.position

\* C20: a cycle in which the vendor rejects the cursor clears the cursor,
\* stays in listen() and broadcasts no connection_status; the next cycle is a
\* full resync, and when that resync succeeds and the vendor reports its
\* position, a cursor is present again.
C20_InvalidCursorThenFullResync ==
    /\ (ret.op = "listen_cycle" /\ ret.outcome = "invalid") =>
           /\ ret.after = NoCursor
           /\ ~ret.left
           /\ ~ret.status_sent
    /\ (ret.op = "listen_cycle" /\ ret.prev_invalid) =>
           /\ ret.mode = "full"
           /\ (ret.outcome = "ok" /\ ret.reported # NoCursor) =>
                  Truthy(ret.after)

\* C21: a successful request whose batch holds exactly one item that cannot be
\* converted still delivers every other item of the batch (returned by
\* fetch_recent; emitted by a listen cycle, Gmail leaving out the ids it has
\* seen), the loop is not aborted, and the cycle leaves the cursor at the
\* position of that fetch.
C21_MalformedItemIsSkipped ==
    /\ (/\ ret.op = "fetch_recent"
        /\ ret.outcome = "ok"
        /\ Cardinality(ret.malformed) = 1) =>
           /\ ~ret.aborted
           /\ ret.returned = ret.items \ ret.malformed
    /\ (/\ ret.op = "listen_cycle"
        /\ ret.outcome = "ok"
        /\ Cardinality(ret.malformed) = 1) =>
           /\ ~ret.aborted
           /\ ret.emitted =
                  (ret.items \ ret.malformed) \
                      (IF ret.kind = "gmail" THEN ret.seen_before ELSE {})
           /\ (ret.kind \in {"asana", "plane"} \/ ret.reported # NoCursor) =>
                  ret.after = ret.position

\* C22: a Gmail listen cycle emits no id that was in _seen_ids before it;
\* _seen_ids never loses an id; and every id a cycle emits or fetch_recent
\* lists is in _seen_ids afterwards.
C22_GmailNeverEmitsKnownId ==
    [][kind = "gmail" =>
         /\ seen_ids \subseteq seen_ids'
         /\ ret'.op = "listen_cycle" =>
                /\ ret'.emitted \cap seen_ids = {}
                /\ ret'.emitted \subseteq seen_ids'
         /\ (ret'.op = "fetch_recent" /\ ret'.outcome = "ok") =>
                /\ ret'.returned \subseteq seen_ids'
                /\ ret'.items \subseteq seen_ids']_vars

\* After a cursor reset, Gmail's full poll lists a message it has already
\* seen next to a new one, and emits only the new one.
C22_Witness ==
    /\ ret.op = "listen_cycle"
    /\ ret.kind = "gmail"
    /\ ret.mode = "full"
    /\ ret.prev_invalid
    /\ ret.items = Messages
    /\ ret.malformed = {}
    /\ Cardinality(ret.seen_before) = 1
    /\ ret.emitted = Messages \ ret.seen_before

\* C23: a fetch_recent that completes without error leaves a present cursor
\* unchanged, and leaves a cursor present where there was none.
C23_FetchRecentSeedsCursor ==
    (ret.op = "fetch_recent" /\ ret.outcome = "ok" /\ ~ret.aborted) =>
        /\ Truthy(ret.before) => ret.after = ret.before
        /\ (~Truthy(ret.before) /\ ret.reported # NoCursor) =>
               Truthy(ret.after)

\* C24: the adapter get_service_for_reply returns has the requested source and
\* the requested account, and a request that no registered adapter matches in
\* both is answered not-found.
C24_ReplyRouteIsExactMatch ==
    ret.op = "reply" =>
        /\ ret.service # 0 =>
               /\ services[ret.service].source = ret.source
               /\ services[ret.service].account = ret.account
        /\ (\A i \in DOMAIN services :
                services[i] # [source |-> ret.source,
                               account |-> ret.account]) =>
               ret.service = 0 /\ ret.result.kind = "NotFound"

\* C25: a reply aimed at a registered Slack, Asana or Plane adapter is
\* answered with a rejected action of kind UnsupportedOperation (not NotFound,
\* not an unhandled failure), after at most one attempt.
C25_ReplyOnReadOnlySourceIsUnsupported ==
    (/\ ret.op = "reply"
     /\ ret.source \in {"slack", "asana", "plane"}
     /\ \E i \in DOMAIN services :
            services[i] = [source |-> ret.source, account |-> ret.account]) =>
        /\ ret.result.kind = "UnsupportedOperation"
        /\ ret.attempts <= 1

\* C26: when start_all has returned, start() has been called on every
\* configured adapter, in the configured order, and each of them is either
\* running or stopped.
C26_StartAllStartsEveryAdapter ==
    reg_pc = "started" =>
        /\ Len(services) = Len(configured)
        /\ \A i \in DOMAIN services :
               /\ services[i] = Adapter(configured[i])
               /\ svc_running[i] \in BOOLEAN

\* start_all has returned with five adapters; the first did not connect and
\* the four after it are running.
C26_Witness ==
    /\ reg_pc = "started"
    /\ Len(services) = 5
    /\ ~svc_running[1]
    /\ \A i \in 2..5 : svc_running[i]

\* C27: when stop_all has ended, by returning or by an exception, stop() has
\* been called on every registered adapter.
C27_StopAllStopsEveryAdapter ==
    reg_pc \in {"stopped", "stop_raised"} =>
        stop_called = DOMAIN services

\* C28: a broadcast that was suspended in a send ends without an exception
\* and has attempted every connection that stayed registered from its start
\* to its end, whatever connects, disconnects and other broadcasts ran
\* between its sends.
C28_InterleavedBroadcastCompletes ==
    ret.op = "broadcast_done" =>
        /\ ~ret.raised
        /\ ret.stayed \subseteq ret.attempted

\* C29: a new_notification event is broadcast only by an emit_notification
\* whose save_notification returned, at a moment when a row with the
\* notification's (source, source_id) is in the table; and an
\* emit_notification whose save_notification raised ends there.
C29_SaveCommitsBeforeBroadcast ==
    [][ /\ (emitting.pc = "saved" /\ emitting'.pc = "none") =>
              /\ ~emitting.raised
              /\ ret'.op = "new_notification"
              /\ \E r \in records : Key(r) = Key(emitting.notification)
        /\ (ret'.op = "save_notification" /\ ret'.raised) =>
              emitting'.pc = "none" ]_vars

C29_Witness ==
    /\ ret.op = "new_notification"
    /\ ret.to # {}
    /\ \E r \in records : Key(r) = ret.key

\* C30: a default listing (GET /api/notifications without a status filter,
\* or an initial_load snapshot) contains no notification whose row in the
\* table is archived.
C30_DefaultListingOmitsArchived ==
    (\/ ret.op = "get_notifications" /\ ret.status = ""
     \/ ret.op = "initial_load") =>
        \A i \in DOMAIN ret.notifications :
            ~ \E r \in records : /\ r.triage_status = "archived"
                                 /\ Key(r) = Key(ret.notifications[i])

\* C31: a new_notification event carries the triage_status of the row stored
\* for its (source, source_id).
C31_EventCarriesPersistedTriage ==
    ret.op = "new_notification" =>
        \A r \in records :
            Key(r) = ret.key =>
                ret.message.data.triage_status = r.triage_status

\* C32: the id in a new_notification event is the id of the row stored for
\* its (source, source_id), so update_triage_status finds a row under it.
C32_DeliveredIdIsPersistedId ==
    ret.op = "new_notification" =>
        /\ \E r \in records : /\ Key(r) = ret.key
                               /\ r.id = ret.message.data.id
        /\ Get(ret.message.data.id) # {}

\* C33: whatever the interleaving of the upserts of a key, the table holds at
\* most one row for it and no upsert fails.
C33_ConcurrentUpsertsKeepOneRow ==
    /\ \A r1, r2 \in records : Key(r1) = Key(r2) => r1 = r2
    /\ ret.op = "save_notification" => ~ret.raised

\* C34: the commit of a listing leaves alone every row that is archived or
\* read when it commits, also a row the listing read as an expired snoozed
\* one.
C34_ListKeepsStatusCommittedInBetween ==
    [][ \A t \in Sessions :
          (sessions[t].pc = "listed" /\ sessions'[t].pc = "none") =>
              \A r \in records :
                  r.triage_status \in {"archived", "read"} =>
                      \E r2 \in records' :
                          /\ r2.id = r.id
                          /\ r2.triage_status = r.triage_status ]_vars

\* C35: once the status-changing requests have returned, the last
\* notification_updated event a connected client has received for an id
\* carries the triage_status persisted for that id.
C35_LastEventMatchesPersistedStatus ==
    Pending = {} =>
        \A c \in active_connections :
            inbox[c] # << >> =>
                LET last == inbox[c][Len(inbox[c])] IN
                \A r \in records :
                    r.id = last.data.id =>
                        r.triage_status = last.data.triage_status

\* C36: the first event a client receives over its websocket is its
\* initial_load.
C36_InitialLoadComesFirst ==
    \A c \in HubConnections :
        inbox[c] # << >> => inbox[c][1].event = "initial_load"

\* C37: at most one listener task of the adapter is live, and a live task is
\* the one self._task refers to.
C37_OneReferencedListener ==
    /\ Cardinality(LiveTasks) <= 1
    /\ LiveTasks \subseteq {task_ref}

\* C38: listen() is entered only while the vendor session is open, that is
\* when the last connect() returned true: the listener does not go from the
\* retried connect() to listen() when that connect() returned false.
C38_ListenOnlyAfterSuccessfulConnect ==
    [][ (task.pc # "listen" /\ task'.pc = "listen") => session' ]_vars

\* C39: after an incremental cycle, a new message of its history answer that
\* was not emitted is still ahead of the adapter: its id is not in _seen_ids
\* and the cursor has not moved.
C39_UnemittedMessageStaysAhead ==
    ret.op = "poll_incremental" =>
        \A m \in ret.new \ ret.emitted :
            /\ m \notin seen_ids
            /\ cursor = ret.before

\* C40: a listen cycle whose request and item loop succeed ends with a
\* cursor present, and a cursor that was present is absent after a cycle only
\* when the vendor rejected it.
C40_SuccessfulCycleKeepsCursor ==
    ret.op = "listen_cycle" =>
        /\ (ret.outcome = "ok" /\ ~ret.aborted) => Truthy(ret.after)
        /\ (Truthy(ret.before) /\ ~Truthy(ret.after)) =>
               ret.outcome = "invalid"

=============================================================================
